---- MODULE Spec2Model ----
\* Model of the HTML text-extraction engine of src/app/api/fetch-html/route.ts:
\* extractText (readable pipeline), extractStructuredText (structured
\* pipeline), wordWrap and the final assembling of the line buffer.
\* Strings are sequences of one-character strings; a parsed document is a
\* sequence of element nodes in document (pre-)order, each with a parent
\* index (0 is the document's html root), a tag, one attribute kind and the
\* text that precedes its child elements.
EXTENDS Integers, Naturals, Sequences, FiniteSets, TLC

\* ---------------------------------------------------------------------
\* Characters and strings
\* ---------------------------------------------------------------------

NL == "\n"
SP == " "
\* the characters ` and U+2022 (bullet), written as tokens
Backtick == "backtick"
Bullet == "bullet"

\* JS /\s/ restricted to the model's alphabet
IsWs(c) == c \in {SP, NL}

\* the letters A-Z with their lowercase forms
CasePairs == {<<"A", "a">>, <<"B", "b">>, <<"C", "c">>, <<"D", "d">>,
              <<"E", "e">>, <<"F", "f">>, <<"G", "g">>, <<"H", "h">>,
              <<"I", "i">>, <<"J", "j">>, <<"K", "k">>, <<"L", "l">>,
              <<"M", "m">>, <<"N", "n">>, <<"O", "o">>, <<"P", "p">>,
              <<"Q", "q">>, <<"R", "r">>, <<"S", "s">>, <<"T", "t">>,
              <<"U", "u">>, <<"V", "v">>, <<"W", "w">>, <<"X", "x">>,
              <<"Y", "y">>, <<"Z", "z">>}
\* String.prototype.toLowerCase / toUpperCase on the model's alphabet
LowerChar(c) == IF \E q \in CasePairs : q[1] = c
                  THEN (CHOOSE q \in CasePairs : q[1] = c)[2] ELSE c
UpperChar(c) == IF \E q \in CasePairs : q[2] = c
                  THEN (CHOOSE q \in CasePairs : q[2] = c)[1] ELSE c
ToLower(s) ==
  CHOOSE res \in {[i \in 1..Len(s_v) |-> LowerChar(s_v[i])] : s_v \in {s}} : TRUE
ToUpper(s) ==
  CHOOSE res \in {[i \in 1..Len(s_v) |-> UpperChar(s_v[i])] : s_v \in {s}} : TRUE

\* "c".repeat(n)
Repeat(c, n) == [i \in 1..n |-> c]

Min(a, b) == IF a < b THEN a ELSE b

\* (Operators bind their string argument with "v \in {s}" so that it is
\* evaluated once, not at every use.)

\* the characters of s at the positions ks
Pick(s, ks) ==
  CHOOSE r \in {[j \in 1..Len(kv) |-> sv[kv[j]]] : sv \in {s}, kv \in {ks}} : TRUE

\* the positions of s
Pos(s) == [k \in 1..Len(s) |-> k]

MinOf(S) == CHOOSE x \in S : \A y \in S : x <= y
MaxOf(S) == CHOOSE x \in S : \A y \in S : x >= y

\* String.prototype.trim: drop leading and trailing whitespace
Trim(s) ==
  CHOOSE r \in {LET ne == {k \in 1..Len(v) : ~IsWs(v[k])} IN
                  IF ne = {} THEN <<>> ELSE SubSeq(v, MinOf(ne), MaxOf(ne)) :
                v \in {s}} : TRUE

\* s.replace(/\s+/g, " "): every maximal run of whitespace becomes one space
CollapseWs(s) ==
  CHOOSE r \in {[j \in 1..Len(kept) |-> IF IsWs(kept[j]) THEN SP ELSE kept[j]] :
                kept \in {Pick(v, SelectSeq(Pos(v), LAMBDA k : ~(IsWs(v[k]) /\ k > 1
                                                                 /\ IsWs(v[k - 1])))) :
                          v \in {s}}} : TRUE

\* text.replace(/\s+/g, " ").trim()
Normalize(s) == Trim(CollapseWs(s))

\* lines.join(sep) for a sequence of strings
RECURSIVE Join(_, _)
Join(ls, sep) ==
  CHOOSE res \in {IF ls_v = <<>> THEN <<>>
  ELSE IF Len(ls_v) = 1 THEN Head(ls_v)
  ELSE Head(ls_v) \o sep \o Join(Tail(ls_v), sep)
    : ls_v \in {ls}} : TRUE

\* a mutant: the regex /\n{4,}/g
CollapseNL_Mut(s) ==
  CHOOSE r \in {Pick(v, SelectSeq(Pos(v), LAMBDA k : ~(k >= 4 /\ v[k] = NL /\ v[k - 1] = NL
                                                     /\ v[k - 2] = NL /\ v[k - 3] = NL))) :
                v \in {s}} : TRUE

\* s.replace(/\n{3,}/g, "\n\n"): every maximal run of 3 or more newlines
\* becomes exactly two, i.e. a newline is dropped when it is the third or a
\* later one of its run
CollapseNL(s) ==
  CHOOSE r \in {Pick(v, SelectSeq(Pos(v), LAMBDA k : ~(k >= 3 /\ v[k] = NL /\ v[k - 1] = NL
                                                     /\ v[k - 2] = NL))) :
                v \in {s}} : TRUE

\* lines.join("\n").replace(/\n{3,}/g, "\n\n")[.replace(/^\s+|\s+$/g, "")].trim()
Assemble(buf) == Trim(CollapseNL(Join(buf, <<NL>>)))

\* ---------------------------------------------------------------------
\* wordWrap(text, maxWidth)
\* ---------------------------------------------------------------------

\* s.split(sep) for a one-character separator
RECURSIVE SplitOn(_, _)
SplitOn(s, sep) ==
  CHOOSE res \in {IF \A i \in 1..Len(s_v) : s_v[i] # sep THEN <<s_v>>
  ELSE LET k == CHOOSE i \in 1..Len(s_v) :
                  s_v[i] = sep /\ \A j \in 1..(i - 1) : s_v[j] # sep
       IN <<SubSeq(s_v, 1, k - 1)>> \o SplitOn(SubSeq(s_v, k + 1, Len(s_v)), sep)
    : s_v \in {s}} : TRUE

\* text.split(" ")
SplitSp(s) == SplitOn(s, SP)

\* a mutant: the fit test with < instead of <=
WrapFits_Mut(cur, word, maxWidth) == Len(cur) + Len(word) + 1 < maxWidth

\* currentLine.length + word.length + 1 <= maxWidth
WrapFits(cur, word, maxWidth) == Len(cur) + Len(word) + 1 <= maxWidth

\* the for-loop over words: acc = [lines, cur]
RECURSIVE WrapLoop(_, _, _, _)
WrapLoop(words, maxWidth, ls, cur) ==
  CHOOSE res \in {IF words_v = <<>> THEN <<ls_v, cur_v>>
  ELSE LET word == Head(words_v) IN
    IF WrapFits(cur_v, word, maxWidth)
      THEN WrapLoop(Tail(words_v), maxWidth, ls_v,
                    cur_v \o (IF cur_v # <<>> THEN <<SP>> ELSE <<>>) \o word)
      ELSE WrapLoop(Tail(words_v), maxWidth,
                    IF cur_v # <<>> THEN Append(ls_v, cur_v) ELSE ls_v, word)
    : words_v \in {words}, ls_v \in {ls}, cur_v \in {cur}} : TRUE

\* the lines wordWrap joins with "\n"
WrapLines(text, maxWidth) ==
  CHOOSE res \in {LET r == WrapLoop(SplitSp(text_v), maxWidth, <<>>, <<>>) IN
    IF r[2] # <<>> THEN Append(r[1], r[2]) ELSE r[1]
    : text_v \in {text}} : TRUE

wordWrap(text, maxWidth) ==
  CHOOSE res \in {Join(WrapLines(text_v, maxWidth), <<NL>>)
    : text_v \in {text}} : TRUE

\* ---------------------------------------------------------------------
\* Parsed document
\* ---------------------------------------------------------------------

\* an element node of the tree cheerio.load builds
N(tag, par, attr, txt) == [tag |-> tag, par |-> par, attr |-> attr, txt |-> txt]

\* strict ancestors of node i ($el.parents())
RECURSIVE Anc(_, _)
Anc(d, i) == IF d[i].par = 0 THEN {} ELSE {d[i].par} \cup Anc(d, d[i].par)

\* child elements of i in document order, leaving out the nodes of excl
ChildSeq(d, i, excl) ==
  SelectSeq([k \in 1..Len(d) |-> k], LAMBDA k : d[k].par = i /\ k \notin excl)

\* .text(): the text of i followed by the text of its children, in order
RECURSIVE TextContent(_, _, _), TextOfSeq(_, _, _)
TextContent(d, i, excl) == d[i].txt \o TextOfSeq(d, ChildSeq(d, i, excl), excl)
TextOfSeq(d, js, excl) ==
  IF js = <<>> THEN <<>>
  ELSE TextContent(d, Head(js), excl) \o TextOfSeq(d, Tail(js), excl)

\* ---------------------------------------------------------------------
\* Noise filter: the $(selector).remove() calls of each pipeline
\* ---------------------------------------------------------------------

\* $("script") ... $("head"), $("nav") ... $("form") of extractText
ReadableRemoveTags == {"script", "style", "noscript", "iframe", "svg", "head",
                       "nav", "footer", "header", "button", "input", "select",
                       "form"}
\* [hidden], [style*="display: none"], [style*="display:none"],
\* [aria-hidden="true"], .advertisement, .ads, [role=...] of extractText
ReadableRemoveAttrs == {"hidden", "styleDisplayNone", "styleDisplayNone2",
                        "ariaHidden", "classAdvertisement", "classAds",
                        "roleNavigation", "roleBanner", "roleComplementary"}
\* the removals of extractStructuredText
StructuredRemoveTags == {"script", "style", "noscript", "iframe", "svg", "head"}
StructuredRemoveAttrs == {"hidden", "styleDisplayNone", "styleDisplayNone2"}

RemoveTags(pipe) ==
  IF pipe = "readable" THEN ReadableRemoveTags ELSE StructuredRemoveTags
RemoveAttrs(pipe) ==
  IF pipe = "readable" THEN ReadableRemoveAttrs ELSE StructuredRemoveAttrs

\* the nodes gone from the tree after the removals: a matching element and
\* its whole subtree
Removed(d, pipe) ==
  {i \in 1..Len(d) :
     \E a \in Anc(d, i) \cup {i} :
        d[a].tag \in RemoveTags(pipe) \/ d[a].attr \in RemoveAttrs(pipe)}

\* ---------------------------------------------------------------------
\* Block walker
\* ---------------------------------------------------------------------

ReadableSelector == {"h1", "h2", "h3", "h4", "h5", "h6", "p", "article",
                     "section", "main", "li", "td", "th", "blockquote",
                     "figcaption"}
StructuredSelector == {"h1", "h2", "h3", "h4", "h5", "h6", "p", "li", "td",
                       "th", "blockquote", "pre", "span", "div", "a"}
Headings == {"h1", "h2", "h3", "h4", "h5", "h6"}
ReadableContainers == {"p", "li", "td", "th", "blockquote", "figcaption"}
StructuredContainers == {"p", "li", "h1", "h2", "h3", "h4", "h5", "h6"}
ReadableExempt == Headings
StructuredExempt == {"a", "span"}
ReadableChildExcl == {"script", "style", "nav", "footer", "header", "aside"}
StructuredChildExcl == {"script", "style"}

Selector(pipe) == IF pipe = "readable" THEN ReadableSelector ELSE StructuredSelector
Containers(pipe) == IF pipe = "readable" THEN ReadableContainers ELSE StructuredContainers
Exempt(pipe) == IF pipe = "readable" THEN ReadableExempt ELSE StructuredExempt
ChildExcl(pipe) == IF pipe = "readable" THEN ReadableChildExcl ELSE StructuredChildExcl

\* a mutant: the candidates visited in reverse document order
Candidates_Mut(d, rm, pipe) ==
  LET c == SelectSeq([k \in 1..Len(d) |-> k],
                     LAMBDA k : k \notin rm /\ d[k].tag \in Selector(pipe)
                                /\ \E b \in Anc(d, k) : d[b].tag = "body")
  IN [j \in 1..Len(c) |-> c[Len(c) + 1 - j]]

\* $("body").find(selector): matching descendants of body, document order
Candidates(d, rm, pipe) ==
  SelectSeq([k \in 1..Len(d) |-> k],
            LAMBDA k : k \notin rm /\ d[k].tag \in Selector(pipe)
                       /\ \E b \in Anc(d, k) : d[b].tag = "body")

\* a mutant: the exemption test left out
Skip_MutExempt(d, i, pipe) == \E a \in Anc(d, i) : d[a].tag \in Containers(pipe)

\* a mutant: only the direct parent looked at ($el.parent() for $el.parents())
Skip_MutParent(d, i, pipe) ==
  /\ d[i].par # 0 /\ d[d[i].par].tag \in Containers(pipe)
  /\ d[i].tag \notin Exempt(pipe)

\* $el.parents(containers).length > 0 && !exempt.includes(tagName)
Skip(d, i, pipe) ==
  /\ \E a \in Anc(d, i) : d[a].tag \in Containers(pipe)
  /\ d[i].tag \notin Exempt(pipe)

\* $el.clone().children(excl).remove().end().text().trim()
RawText(d, i, rm, pipe) ==
  Trim(TextContent(d, i,
         rm \cup {j \in 1..Len(d) : d[j].par = i /\ d[j].tag \in ChildExcl(pipe)}))

\* $el.clone() and .text() walk the subtree of i recursively, one nested
\* call per level; past the engine's call-stack limit they throw a
\* RangeError. StackDepth is that limit scaled down to the model's trees:
\* a subtree higher than it may make the walk throw (where exactly depends
\* on the build and its stack size), one no higher never does.
StackDepth == 2

\* the number of element levels of the subtree of i, removed nodes left out
RECURSIVE Height(_, _, _)
Height(d, i, rm) ==
  LET cs == ChildSeq(d, i, rm) IN
    IF cs = <<>> THEN 1 ELSE 1 + MaxOf({Height(d, cs[j], rm) : j \in 1..Len(cs)})

MayOverflow(d, i, rm) == Height(d, i, rm) > StackDepth

\* $("title").text().trim()
TitleText(d, rm) ==
  Trim(TextOfSeq(d, SelectSeq([k \in 1..Len(d) |-> k],
                              LAMBDA k : k \notin rm /\ d[k].tag = "title"), rm))

\* ---------------------------------------------------------------------
\* Line formatters: the switch (tagName) of each pipeline
\* ---------------------------------------------------------------------

ReadableParaMin == 15
ReadableWrapWidth == 80
StructuredParaMin == 20
ReadableMinLen == 3
StructuredMinLen == 2
TitleRuleMax == 50
H1RuleMax == 50
H2RuleMax == 40

\* a mutant: the paragraph test with >= instead of >
FormatReadable_Mut(tag, text) ==
  CHOOSE res \in {CASE tag = "h1" -> << <<>>, ToUpper(text_v),
                        Repeat("=", Min(Len(text_v), H1RuleMax)), <<>> >>
    [] tag = "h2" -> << <<>>, text_v, Repeat("-", Min(Len(text_v), H2RuleMax)), <<>> >>
    [] tag \in {"h3", "h4", "h5", "h6"} ->
                     << <<>>, <<"[">> \o text_v \o <<"]">>, <<>> >>
    [] tag = "li" -> << <<SP, SP, "-", SP>> \o text_v >>
    [] tag = "blockquote" -> << <<>>, <<SP, SP, "\"">> \o text_v \o <<"\"">>, <<>> >>
    [] tag \in {"td", "th"} -> << <<"|", SP>> \o text_v \o <<SP, "|">> >>
    [] tag = "figcaption" -> << <<SP, SP, "(">> \o text_v \o <<")">> >>
    [] OTHER -> IF Len(text_v) >= ReadableParaMin
                  THEN << wordWrap(text_v, ReadableWrapWidth), <<>> >>
                  ELSE <<>>
    : text_v \in {text}} : TRUE

\* the lines extractText pushes for a block of tag with normalized text
FormatReadable(tag, text) ==
  CHOOSE res \in {CASE tag = "h1" -> << <<>>, ToUpper(text_v),
                        Repeat("=", Min(Len(text_v), H1RuleMax)), <<>> >>
    [] tag = "h2" -> << <<>>, text_v, Repeat("-", Min(Len(text_v), H2RuleMax)), <<>> >>
    [] tag \in {"h3", "h4", "h5", "h6"} ->
                     << <<>>, <<"[">> \o text_v \o <<"]">>, <<>> >>
    [] tag = "li" -> << <<SP, SP, "-", SP>> \o text_v >>
    [] tag = "blockquote" -> << <<>>, <<SP, SP, "\"">> \o text_v \o <<"\"">>, <<>> >>
    [] tag \in {"td", "th"} -> << <<"|", SP>> \o text_v \o <<SP, "|">> >>
    [] tag = "figcaption" -> << <<SP, SP, "(">> \o text_v \o <<")">> >>
    [] OTHER -> IF Len(text_v) > ReadableParaMin
                  THEN << wordWrap(text_v, ReadableWrapWidth), <<>> >>
                  ELSE <<>>
    : text_v \in {text}} : TRUE

\* a mutant: h3 takes the h2 prefix
FormatStructured_Mut(tag, text) ==
  CHOOSE res \in {CASE tag = "h1" -> << <<>>, <<"#", SP>> \o text_v, <<>> >>
    [] tag = "h2" -> << <<>>, <<"#", "#", SP>> \o text_v, <<>> >>
    [] tag = "h3" -> << <<>>, <<"#", "#", SP>> \o text_v, <<>> >>
    [] tag \in {"h4", "h5", "h6"} -> << <<>>, <<"#", "#", "#", "#", SP>> \o text_v, <<>> >>
    [] tag = "li" -> << <<Bullet, SP>> \o text_v >>
    [] tag = "blockquote" -> << <<">", SP>> \o text_v >>
    [] tag = "pre" -> << <<Backtick, Backtick, Backtick>>, text_v, <<Backtick, Backtick, Backtick>> >>
    [] tag \in {"p", "div"} -> IF Len(text_v) > StructuredParaMin
                                 THEN << text_v, <<>> >> ELSE <<>>
    [] OTHER -> <<>>
    : text_v \in {text}} : TRUE

\* the lines extractStructuredText pushes for a block of tag with normalized text
FormatStructured(tag, text) ==
  CHOOSE res \in {CASE tag = "h1" -> << <<>>, <<"#", SP>> \o text_v, <<>> >>
    [] tag = "h2" -> << <<>>, <<"#", "#", SP>> \o text_v, <<>> >>
    [] tag = "h3" -> << <<>>, <<"#", "#", "#", SP>> \o text_v, <<>> >>
    [] tag \in {"h4", "h5", "h6"} -> << <<>>, <<"#", "#", "#", "#", SP>> \o text_v, <<>> >>
    [] tag = "li" -> << <<Bullet, SP>> \o text_v >>
    [] tag = "blockquote" -> << <<">", SP>> \o text_v >>
    [] tag = "pre" -> << <<Backtick, Backtick, Backtick>>, text_v, <<Backtick, Backtick, Backtick>> >>
    [] tag \in {"p", "div"} -> IF Len(text_v) > StructuredParaMin
                                 THEN << text_v, <<>> >> ELSE <<>>
    [] OTHER -> <<>>
    : text_v \in {text}} : TRUE

\* one invocation of the .each callback of extractText on node i:
\* [why |-> outcome, grp |-> lines pushed, seen |-> seen set afterwards]
VisitReadable(d, i, rm, seen) ==
  IF Skip(d, i, "readable") THEN [why |-> "skip", grp |-> <<>>, seen |-> seen]
  ELSE CHOOSE res \in {
    IF raw = <<>> THEN [why |-> "empty", grp |-> <<>>, seen |-> seen]
    ELSE IF Len(text) < ReadableMinLen \/ textLower \in seen
      THEN [why |-> IF Len(text) < ReadableMinLen THEN "short" ELSE "dup",
            grp |-> <<>>, seen |-> seen]
      ELSE [why |-> "fmt", grp |-> FormatReadable(d[i].tag, text),
            seen |-> seen \cup {textLower}]
    : raw \in {RawText(d, i, rm, "readable")},
      text \in {Normalize(RawText(d, i, rm, "readable"))},
      textLower \in {ToLower(Normalize(RawText(d, i, rm, "readable")))}} : TRUE

\* one invocation of the .each callback of extractStructuredText on node i
VisitStructured(d, i, rm) ==
  IF Skip(d, i, "structured") THEN [why |-> "skip", grp |-> <<>>]
  ELSE CHOOSE res \in {
    IF raw = <<>> THEN [why |-> "empty", grp |-> <<>>]
    ELSE IF Len(text) < StructuredMinLen THEN [why |-> "short", grp |-> <<>>]
    ELSE [why |-> "fmt", grp |-> FormatStructured(d[i].tag, text)]
    : raw \in {RawText(d, i, rm, "structured")},
      text \in {Normalize(RawText(d, i, rm, "structured"))}} : TRUE

\* ---------------------------------------------------------------------
\* Documents: cheerio.load always builds html > head, body
\* ---------------------------------------------------------------------

\* a block of the body: par 0 is body, par k the k-th block
B(tag, par, attr, txt) == N(tag, par, attr, txt)

\* <html><head><title>titleTxt</title></head><body>blocks</body></html>
MkDoc(titleTxt, blocks) ==
  << N("head", 0, "none", <<>>), N("title", 1, "none", titleTxt),
     N("body", 0, "none", <<>>) >>
  \o [k \in 1..Len(blocks) |->
        [blocks[k] EXCEPT !.par = IF @ = 0 THEN 3 ELSE 3 + @]]
DocEndToEnd ==
  MkDoc(<<"D", "o", "c">>,
   <<B("h1", 0, "none", <<"H", "i">>),
    B("p", 0, "none", <<"S", "o", "m", "e", " ", "t", "e", "x", "t", " ", "h", "e", "r", "e", " ", "t", "h", "a", "t", " ", "i", "s", " ", "l", "o", "n", "g", " ", "e", "n", "o", "u", "g", "h", ".">>)>>)
DocTitleInBody ==
  MkDoc(<<>>,
   <<B("title", 0, "none", <<"D", "o", "c">>),
    B("h1", 0, "none", <<"D", "o", "c">>),
    B("h2", 0, "none", <<"D", "o", "c", "s">>)>>)
DocTitleRepeated ==
  MkDoc(<<"D", "o", "c">>,
   <<B("h1", 0, "none", <<"D", "o", "c">>)>>)
DocCaseDup ==
  MkDoc(<<>>,
   <<B("h2", 0, "none", <<"H", "e", "l", "l", "o", " ", "W", "o", "r", "l", "d">>),
    B("li", 0, "none", <<"h", "e", "l", "l", "o", " ", "w", "o", "r", "l", "d">>),
    B("h3", 0, "none", <<"H", "E", "L", "L", "O", " ", " ", "w", "o", "r", "l", "d">>)>>)
DocNoise ==
  MkDoc(<<>>,
   <<B("div", 0, "none", <<"V", "i", "s", "i", "b", "l", "e", " ", "t", "e", "x", "t", " ", "t", "h", "a", "t", " ", "i", "s", " ", "l", "o", "n", "g">>),
    B("script", 1, "none", <<"s", "c", "r", "i", "p", "t", " ", "t", "e", "x", "t", " ", "t", "h", "a", "t", " ", "i", "s", " ", "l", "o", "n", "g">>),
    B("p", 0, "ariaHidden", <<"a", "r", "i", "a", " ", "h", "i", "d", "d", "e", "n", " ", "t", "e", "x", "t", " ", "i", "s", " ", "l", "o", "n", "g">>),
    B("div", 0, "hidden", <<"h", "i", "d", "d", "e", "n", " ", "a", "t", "t", "r", " ", "t", "e", "x", "t", " ", "i", "s", " ", "l", "o", "n", "g">>),
    B("p", 0, "styleDisplayNone", <<"d", "i", "s", "p", "l", "a", "y", " ", "n", "o", "n", "e", " ", "t", "e", "x", "t", " ", "l", "o", "n", "g">>),
    B("div", 0, "styleDisplayNone2", <<"d", "i", "s", "p", "l", "a", "y", " ", "n", "o", "n", "e", " ", "t", "e", "x", "t", " ", "l", "o", "n", "g", "2">>),
    B("nav", 0, "none", <<"N", "a", "v", " ", "t", "e", "x", "t", " ", "t", "h", "a", "t", " ", "i", "s", " ", "q", "u", "i", "t", "e", " ", "l", "o", "n", "g">>),
    B("li", 7, "none", <<"N", "a", "v", " ", "i", "t", "e", "m">>)>>)
DocNoise2 ==
  MkDoc(<<>>,
   <<B("footer", 0, "none", <<"F", "o", "o", "t", "e", "r", " ", "t", "e", "x", "t", " ", "l", "o", "n", "g", " ", "e", "n", "o", "u", "g", "h", " ", "a", "b">>),
    B("form", 0, "none", <<"F", "o", "r", "m", " ", "t", "e", "x", "t", " ", "t", "h", "a", "t", " ", "i", "s", " ", "l", "o", "n", "g", " ", "a", "b", "c">>),
    B("div", 0, "classAds", <<"A", "d", "v", "e", "r", "t", " ", "t", "e", "x", "t", " ", "t", "h", "a", "t", " ", "i", "s", " ", "l", "o", "n", "g", " ", "a", "b">>),
    B("section", 0, "roleComplementary", <<"S", "i", "d", "e", " ", "t", "e", "x", "t", " ", "t", "h", "a", "t", " ", "i", "s", " ", "l", "o", "n", "g", " ", "a", "b">>),
    B("p", 0, "styleOther", <<"S", "t", "y", "l", "e", "d", " ", "t", "e", "x", "t", " ", "t", "h", "a", "t", " ", "i", "s", " ", "l", "o", "n", "g", "e", "r">>),
    B("li", 0, "ariaHiddenFalse", <<"S", "h", "o", "w", "n", " ", "i", "t", "e", "m">>),
    B("div", 0, "ariaHidden", <<"H", "i", "d", "d", "e", "n", " ", "f", "o", "r", " ", "s", "c", "r", "e", "e", "n", " ", "r", "e", "a", "d", "e", "r", "s">>)>>)
DocLengths ==
  MkDoc(<<>>,
   <<B("p", 0, "none", <<"a", "a", "a", "a", "a", "a", "a", "a", "a", "a", "a", "a", "a", "a", "a">>),
    B("p", 0, "none", <<"b", "b", "b", "b", "b", "b", "b", "b", "b", "b", "b", "b", "b", "b", "b", "b">>),
    B("div", 0, "none", <<"c", "c", "c", "c", "c", "c", "c", "c", "c", "c", "c", "c", "c", "c", "c", "c", "c", "c", "c", "c">>),
    B("div", 0, "none", <<"d", "d", "d", "d", "d", "d", "d", "d", "d", "d", "d", "d", "d", "d", "d", "d", "d", "d", "d", "d", "d">>),
    B("section", 0, "none", <<"e", "e", "e", "e", "e", "e", "e", "e", "e", "e", "e", "e", "e", "e", "e", "e">>),
    B("li", 0, "none", <<"a", "b">>),
    B("li", 0, "none", <<"x">>),
    B("h2", 0, "none", <<" ", "\n", " ">>)>>)
DocSkip ==
  MkDoc(<<>>,
   <<B("p", 0, "none", <<"P", "a", "r", "a", " ", "t", "e", "x", "t", " ", "w", "i", "t", "h", " ", "a", " ", "s", "p", "a", "n", ":", " ">>),
    B("span", 1, "none", <<"i", "n", "n", "e", "r">>),
    B("a", 1, "none", <<"l", "i", "n", "k">>),
    B("blockquote", 0, "none", <<"Q", "u", "o", "t", "e", " ">>),
    B("h2", 4, "none", <<"H", "e", "a", "d", "i", "n", "g", " ", "i", "n", " ", "q", "u", "o", "t", "e">>),
    B("blockquote", 0, "none", <<>>),
    B("h2", 6, "none", <<"O", "n", "l", "y", " ", "h", "e", "a", "d", "i", "n", "g">>)>>)
DocNested ==
  MkDoc(<<>>,
   <<B("section", 0, "none", <<"I", "n", "t", "r", "o", " ", "o", "f", " ", "t", "h", "e", " ", "s", "e", "c", "t", "i", "o", "n", " ">>),
    B("p", 1, "none", <<"P", "a", "r", "a", "g", "r", "a", "p", "h", " ", "i", "n", " ", "s", "e", "c", "t", "i", "o", "n">>),
    B("div", 0, "none", <<"O", "u", "t", "e", "r", " ", "d", "i", "v", " ", "t", "e", "x", "t", " ">>),
    B("div", 3, "none", <<"I", "n", "n", "e", "r", " ", "d", "i", "v", " ", "t", "e", "x", "t", " ", "l", "o", "n", "g", " ", "e", "n", "o", "u", "g", "h">>),
    B("blockquote", 0, "none", <<"Q", "u", "o", "t", "e", "d", " ">>),
    B("p", 5, "none", <<"P", "a", "r", "a", " ", "i", "n", "s", "i", "d", "e", " ", "t", "h", "e", " ", "q", "u", "o", "t", "e">>),
    B("li", 0, "none", <<"L", "i", "s", "t", " ", "i", "t", "e", "m", " ">>),
    B("span", 7, "none", <<>>),
    B("p", 8, "none", <<"P", "a", "r", "a", " ", "i", "n", " ", "a", " ", "s", "p", "a", "n", " ", "o", "f", " ", "t", "h", "e", " ", "i", "t", "e", "m">>)>>)
DocAside ==
  MkDoc(<<>>,
   <<B("li", 0, "none", <<"I", "t", "e", "m", " ", "t", "e", "x", "t", " ">>),
    B("div", 1, "none", <<>>),
    B("aside", 2, "none", <<"S", "i", "d", "e", " ", "n", "o", "t", "e">>),
    B("section", 0, "none", <<"S", "e", "c", "t", "i", "o", "n", " ", "b", "o", "d", "y", " ", "t", "e", "x", "t", " ">>),
    B("aside", 4, "none", <<"D", "i", "r", "e", "c", "t", " ", "a", "s", "i", "d", "e">>),
    B("div", 4, "none", <<>>),
    B("aside", 6, "none", <<"D", "e", "e", "p", " ", "a", "s", "i", "d", "e">>)>>)
DocWhitespace ==
  MkDoc(<<" ", " ", "T", "w", "o", "\n", " ", "w", "o", "r", "d", "s", " ">>,
   <<B("p", 0, "none", <<" ", " ", "S", "o", "m", "e", " ", "\n", " ", "t", "e", "x", "t", " ", " ", " ", "h", "e", "r", "e", " ", "t", "h", "a", "t", "\n", "i", "s", " ", "l", "o", "n", "g", " ">>),
    B("li", 0, "none", <<" ", "a", "\n", " ", "b", " ">>)>>)
DocEmpty ==
  MkDoc(<<>>,
   <<>>)

\* small documents of every shape: up to MaxBlocks nested blocks
MaxBlocks == 2
FamTags == {"p", "section", "li", "h2", "div", "span", "blockquote"}
FamTexts == {<<"H", "i">>,
             <<"S", "o", "m", "e", " ", "T", "e", "x", "t", " ", "l", "o", "n", "g", " ", "e", "n", "o", "u", "g", "h">>,
             <<"s", "o", "m", "e", " ", "t", "e", "x", "t", " ", "L", "O", "N", "G", " ", "e", "n", "o", "u", "g", "h">>}

\* relative ancestors of block k of a block list
RECURSIVE RelAnc(_, _)
RelAnc(bs, k) == IF bs[k].par \notin 1..(k - 1) THEN {}
                 ELSE {bs[k].par} \cup RelAnc(bs, bs[k].par)

\* the parents a block appended to bs can have in document (pre-)order
ValidPar(bs) == {0} \cup (IF bs = <<>> THEN {} ELSE {Len(bs)} \cup RelAnc(bs, Len(bs)))

\* tags of the HTML "special" category among the family's tags
SpecialTags == {"p", "section", "li", "h2", "div", "blockquote"}
\* start tags that close an open p element
PClosers == {"p", "section", "li", "h2", "div", "blockquote"}

\* the parser (parse5, used by cheerio.load) can put a t element under block
\* q of bs: a p-closer never ends up inside a p, an li never inside an li
\* unless a special element other than div or p lies between them, and a
\* heading never directly inside a heading
ParserAllows(bs, t, q) ==
  LET up == IF q = 0 THEN {} ELSE {q} \cup RelAnc(bs, q) IN
  /\ t \in PClosers => \A a \in up : bs[a].tag # "p"
  /\ t = "li" => \A a \in up :
        bs[a].tag = "li" =>
          \E m \in up : m > a /\ bs[m].tag \in SpecialTags \ {"div", "p"}
  /\ t = "h2" /\ q # 0 => bs[q].tag # "h2"

\* bs is a block list in document (pre-)order the parser can produce
ValidBlocks(bs) ==
  \A k \in 1..Len(bs) :
    LET before == SubSeq(bs, 1, k - 1) IN
      /\ bs[k].par < k
      /\ bs[k].par \in ValidPar(before)
      /\ ParserAllows(before, bs[k].tag, bs[k].par)

\* doc is one of the small documents of every shape
IsFamDoc(d) ==
  \E n \in 1..MaxBlocks :
    \E tg \in [1..n -> FamTags], tx \in [1..n -> FamTexts], pr \in [1..n -> 0..(n - 1)] :
      LET bs == [k \in 1..n |-> B(tg[k], pr[k], "none", tx[k])] IN
        ValidBlocks(bs) /\ d = MkDoc(<<>>, bs)

\* every tag of the two formatting tables at top level
DocTables ==
  MkDoc(<<>>,
   <<B("h1", 0, "none", <<"T", "h", "e", " ", "Q", "u", "i", "c", "k", " ", "b", "r", "o", "w", "n", " ", "f", "o", "x", " ", "j", "u", "m", "p", "s", " ", "o", "v", "e", "r", " ", "t", "h", "e", " ", "l", "a", "z", "y", " ", "d", "o", "g", " ", "a", "g", "a", "i", "n", " ", "a", "n", "d", " ", "a", "g", "a", "i", "n">>),
    B("h2", 0, "none", <<"S", "e", "c", "o", "n", "d", " ", "h", "e", "a", "d", "i", "n", "g", " ", "t", "h", "a", "t", " ", "i", "s", " ", "l", "o", "n", "g", "e", "r", " ", "t", "h", "a", "n", " ", "f", "o", "r", "t", "y", " ", "c", "h", "a", "r", "s">>),
    B("h3", 0, "none", <<"T", "h", "i", "r", "d", " ", "L", "e", "v", "e", "l">>),
    B("h5", 0, "none", <<"F", "i", "f", "t", "h", " ", "L", "e", "v", "e", "l">>),
    B("h6", 0, "none", <<"S", "i", "x", "t", "h", " ", "L", "e", "v", "e", "l">>),
    B("li", 0, "none", <<"L", "i", "s", "t", " ", "I", "t", "e", "m">>),
    B("blockquote", 0, "none", <<"Q", "u", "o", "t", "e", "d", " ", "W", "o", "r", "d", "s">>),
    B("table", 0, "none", <<>>),
    B("tr", 8, "none", <<>>),
    B("td", 9, "none", <<"C", "e", "l", "l", " ", "A">>),
    B("th", 9, "none", <<"H", "e", "a", "d", " ", "B">>),
    B("figure", 0, "none", <<>>),
    B("figcaption", 12, "none", <<"A", " ", "C", "a", "p", "t", "i", "o", "n">>),
    B("pre", 0, "none", <<"x", " ", "=", " ", "1">>),
    B("h4", 0, "none", <<"F", "o", "u", "r", "t", "h", " ", "L", "v", "l">>)>>)

\* headings inside blockquotes (one under an li), and a span and an a in a p
DocQuoteHeading ==
  MkDoc(<<>>,
   <<B("blockquote", 0, "none", <<>>),
    B("h2", 1, "none", <<"O", "n", "l", "y", " ", "h", "e", "a", "d", "i", "n", "g">>),
    B("blockquote", 0, "none", <<"Q", "u", "o", "t", "e", " ", "i", "n", "t", "r", "o", " ">>),
    B("h3", 3, "none", <<"S", "u", "b", " ", "H", "e", "a", "d">>),
    B("li", 0, "none", <<"I", "t", "e", "m", " ">>),
    B("blockquote", 5, "none", <<>>),
    B("h2", 6, "none", <<"D", "e", "e", "p", " ", "h", "e", "a", "d">>),
    B("blockquote", 0, "none", <<>>),
    B("h4", 8, "none", <<"H", "i">>),
    B("p", 0, "none", <<"P", "a", "r", "a", " ", "w", "i", "t", "h", " ">>),
    B("span", 10, "none", <<"a", " ", "s", "p", "a", "n", " ", "i", "n", "s", "i", "d", "e">>),
    B("a", 10, "none", <<"a", " ", "l", "i", "n", "k">>)>>)

\* a section over a chain of divs one level deeper than StackDepth, with
\* text at the bottom
DocDeep ==
  MkDoc(<<>>,
   [k \in 1..(StackDepth + 2) |->
      B(IF k = 1 THEN "section" ELSE "div", k - 1, "none",
        IF k = StackDepth + 2
        THEN <<"D", "e", "e", "p", " ", "t", "e", "x", "t", " ", "o", "f", " ", "t", "h", "e", " ", "c", "h", "a", "i", "n", " ", "h", "e", "r", "e">>
        ELSE <<>>)])

\* short and long blocks nested in non-container blocks
DocNestedShort ==
  MkDoc(<<>>,
   <<B("section", 0, "none", <<"I", "n", "t", "r", "o", " ", "w", "o", "r", "d", "s", " ", "h", "e", "r", "e", " ">>),
    B("p", 1, "none", <<"S", "h", "o", "r", "t", " ", "p", "a", "r", "a">>),
    B("div", 0, "none", <<"O", "u", "t", "e", "r", " ">>),
    B("div", 3, "none", <<"I", "n", "n", "e", "r", " ", "s", "h", "o", "r", "t">>),
    B("blockquote", 0, "none", <<"Q", " ">>),
    B("div", 5, "none", <<"E", "x", "a", "c", "t", "l", "y", " ", "t", "w", "e", "n", "t", "y", " ", "c", "h", "a", "r", "s">>),
    B("div", 0, "none", <<>>),
    B("p", 7, "none", <<"A", " ", "p", "a", "r", "a", "g", "r", "a", "p", "h", " ", "l", "o", "n", "g", " ", "e", "n", "o", "u", "g", "h", " ", "h", "e", "r", "e">>)>>)

FixedDocs == {DocEndToEnd, DocTitleInBody, DocTitleRepeated, DocCaseDup, DocNoise, DocNoise2, DocLengths, DocSkip, DocNested, DocAside, DocWhitespace, DocEmpty, DocTables, DocQuoteHeading, DocNestedShort, DocDeep}

Pipes == {"readable", "structured"}

\* ---------------------------------------------------------------------
\* One call of extractText (pipe "readable") or extractStructuredText
\* (pipe "structured") on a parsed document
\* ---------------------------------------------------------------------

VARIABLES doc, pipe, pc, rm, cands, idx, lines, seen, out, log,
          \* a call of wordWrap(wtext, wwidth) returning wout
          wpc, wtext, wwidth, wout,
          \* the assembling of the line buffer abuf into aout
          apc, abuf, aout

extractVars == <<doc, pipe, pc, rm, cands, idx, lines, seen, out, log>>
wrapVars == <<wpc, wtext, wwidth, wout>>
asmVars == <<apc, abuf, aout>>
vars == <<extractVars, wrapVars, asmVars>>

\* the state of the call apart from its document
ExtractStart ==
  /\ pipe \in Pipes
  /\ pc = "load"
  /\ rm = {}
  /\ cands = <<>>
  /\ idx = 1
  /\ lines = <<>>
  /\ seen = {}
  /\ out = <<>>
  /\ log = <<>>

\* the extraction call before it starts
ExtractInit(docs) ==
  /\ doc \in docs
  /\ ExtractStart

WrapIdle == wpc = "idle" /\ wtext = <<>> /\ wwidth = 0 /\ wout = <<>>
AsmIdle == apc = "idle" /\ abuf = <<>> /\ aout = <<>>

Init ==
  /\ doc \in FixedDocs \/ IsFamDoc(doc)
  /\ ExtractStart /\ WrapIdle /\ AsmIdle

\* the $(selector).remove() calls
RemoveNoise ==
  /\ pc = "load"
  /\ rm' = Removed(doc, pipe)
  /\ pc' = "title"
  /\ UNCHANGED <<doc, pipe, cands, idx, lines, seen, out, log>>
  /\ UNCHANGED <<wrapVars, asmVars>>

\* const title = $("title").text().trim(); if (title) { ... }, then the
\* $("body").find(...) that the .each iterates over
ReadTitle ==
  /\ pc = "title"
  /\ LET t == TitleText(doc, rm)
         grp == IF t = <<>> THEN <<>>
                ELSE IF pipe = "readable"
                  THEN << t, Repeat("=", Min(Len(t), TitleRuleMax)), <<>> >>
                  ELSE << <<"#", SP>> \o t, <<>> >>
     IN /\ lines' = lines \o grp
        /\ seen' = IF t # <<>> /\ pipe = "readable" THEN seen \cup {ToLower(t)}
                   ELSE seen
        /\ log' = Append(log, [node |-> 0, why |-> IF t = <<>> THEN "empty" ELSE "fmt",
                               grp |-> grp, txt |-> t])
  /\ cands' = Candidates(doc, rm, pipe)
  /\ pc' = "walk"
  /\ UNCHANGED <<doc, pipe, rm, idx, out>>
  /\ UNCHANGED <<wrapVars, asmVars>>

\* one invocation of the .each callback on the idx-th matched element
Visit ==
  /\ pc = "walk"
  /\ idx <= Len(cands)
  /\ \E r \in {IF pipe = "readable" THEN VisitReadable(doc, cands[idx], rm, seen)
               ELSE VisitStructured(doc, cands[idx], rm)},
        t \in {Normalize(RawText(doc, cands[idx], rm, pipe))} :
       /\ lines' = lines \o r.grp
       /\ seen' = IF pipe = "readable" THEN r.seen ELSE seen
       /\ log' = Append(log, [node |-> cands[idx], why |-> r.why, grp |-> r.grp,
                              txt |-> t])
  /\ idx' = idx + 1
  /\ UNCHANGED <<doc, pipe, pc, rm, cands, out>>
  /\ UNCHANGED <<wrapVars, asmVars>>

\* the callback on cands[idx] throws out of clone()/.text() on a subtree
\* deeper than the call stack allows; the exception leaves the function
VisitOverflow ==
  /\ pc = "walk"
  /\ idx <= Len(cands)
  /\ ~Skip(doc, cands[idx], pipe)
  /\ MayOverflow(doc, cands[idx], rm)
  /\ pc' = "threw"
  /\ UNCHANGED <<doc, pipe, rm, cands, idx, lines, seen, out, log>>
  /\ UNCHANGED <<wrapVars, asmVars>>

\* return lines.join("\n").replace(...).trim()
Finish ==
  /\ pc = "walk"
  /\ idx > Len(cands)
  /\ out' = Assemble(lines)
  /\ pc' = "done"
  /\ UNCHANGED <<doc, pipe, rm, cands, idx, lines, seen, log>>
  /\ UNCHANGED <<wrapVars, asmVars>>

Next == RemoveNoise \/ ReadTitle \/ Visit \/ VisitOverflow \/ Finish

Spec == Init /\ [][Next]_vars

\* the call runs to its end: each step of the synchronous call is taken
FairSpec == Spec /\ WF_vars(Next)

\* ---------------------------------------------------------------------
\* wordWrap on its own: inputs are whitespace-normalized texts of words
\* ---------------------------------------------------------------------

MaxWords == 4
MaxWordLen == 3
MaxWidth == 6

\* the spec's example text
WrapExample == <<"a", "a", "a", "a", " ", "b", "b", "b", "b", " ", "c", "c", "c", "c", " ", "d", "d", "d", "d">>

\* the spec's example buffer ["a", "", "", "", "b"]
AsmExample == <<<<"a">>, <<>>, <<>>, <<>>, <<"b">>>>

\* the texts of 1..MaxWords words of 1..MaxWordLen letters, words joined by " "
RECURSIVE WordSeqs(_)
WordSeqs(n) == IF n = 0 THEN {<<>>}
               ELSE {Append(ws, Repeat("a", k)) : ws \in WordSeqs(n - 1),
                                                 k \in 1..MaxWordLen}
WrapTexts == {Join(ws, <<SP>>) : ws \in UNION {WordSeqs(n) : n \in 1..MaxWords}}
             \cup {WrapExample}

WrapInit ==
  /\ ExtractInit({DocEmpty}) /\ pipe = "readable" /\ AsmIdle
  /\ wpc = "ready" /\ wtext \in WrapTexts /\ wwidth \in 1..MaxWidth /\ wout = <<>>

\* the call wordWrap(wtext, wwidth)
WordWrapCall ==
  /\ wpc = "ready"
  /\ wout' = wordWrap(wtext, wwidth)
  /\ wpc' = "done"
  /\ UNCHANGED <<extractVars, wtext, wwidth, asmVars>>

WrapSpec == WrapInit /\ [][WordWrapCall]_vars

\* ---------------------------------------------------------------------
\* The assembling of an arbitrary line buffer
\* ---------------------------------------------------------------------

MaxBufLen == 4
\* lines with text, spaces, newlines or nothing
BufLines == {<<>>, <<"a">>, <<SP>>, <<NL>>, <<"a", NL>>, <<SP, "a", SP>>}

RECURSIVE BufSeqs(_)
BufSeqs(n) == IF n = 0 THEN {<<>>}
              ELSE {Append(b, l) : b \in BufSeqs(n - 1), l \in BufLines}

AsmInit ==
  /\ ExtractInit({DocEmpty}) /\ pipe = "readable" /\ WrapIdle
  /\ apc = "ready" /\ aout = <<>>
  /\ abuf \in UNION {BufSeqs(n) : n \in 0..MaxBufLen} \cup {AsmExample}

\* return lines.join("\n").replace(/\n{3,}/g, "\n\n")...trim()
AssembleCall ==
  /\ apc = "ready"
  /\ aout' = Assemble(abuf)
  /\ apc' = "done"
  /\ UNCHANGED <<extractVars, wrapVars, abuf>>

AsmSpec == AsmInit /\ [][AssembleCall]_vars

\* ---------------------------------------------------------------------
\* Properties
\* ---------------------------------------------------------------------

\* the text of the document's title elements, before any removal
TitleSrc(d) ==
  Trim(TextOfSeq(d, SelectSeq([k \in 1..Len(d) |-> k], LAMBDA k : d[k].tag = "title"), {}))

\* t occurs in s
IsSub(t, s) ==
  Len(t) > 0 /\ \E k \in 1..(Len(s) - Len(t) + 1) : SubSeq(s, k, k + Len(t) - 1) = t

\* the readable output the spec expects for its end-to-end input
E2EExpected == <<"D", "o", "c", NL, "=", "=", "=", NL, NL, "H", "I", NL, "=", "=", NL, NL, "S", "o", "m", "e", " ", "t", "e", "x", "t", " ", "h", "e", "r", "e", " ", "t", "h", "a", "t", " ", "i", "s", " ", "l", "o", "n", "g", " ", "e", "n", "o", "u", "g", "h", ".">>

\* C1: when the document's title element has non-empty text, the readable
\* buffer starts with the title, a rule of min(len, 50) "=" and a blank line,
\* and the lowercased title is seen; the structured buffer starts with
\* "# title" and a blank line; the spec's end-to-end input gives the title
\* block, the underlined HI heading and the paragraph.
C1_TitleBlock ==
  /\ pc = "done" /\ TitleSrc(doc) # <<>> =>
       LET t == TitleSrc(doc) IN
       /\ pipe = "readable" =>
            /\ Len(lines) >= 3
            /\ SubSeq(lines, 1, 3) = << t, Repeat("=", Min(Len(t), 50)), <<>> >>
            /\ ToLower(t) \in seen
       /\ pipe = "structured" =>
            Len(lines) >= 2 /\ SubSeq(lines, 1, 2) = << <<"#", SP>> \o t, <<>> >>
  /\ pc = "done" /\ pipe = "readable" /\ doc = DocEndToEnd => out = E2EExpected

\* the normalized text of the k-th callback of the log (0: the title)
LogText(k) ==
  IF log[k].node = 0 THEN Normalize(TitleSrc(doc))
  ELSE log[k].txt
\* the k-th callback is on the title or on a selected block with text
LogSelected(k) ==
  IF log[k].node = 0 THEN TitleSrc(doc) # <<>>
  ELSE log[k].why \notin {"skip", "empty"}
\* the string the k-th callback registers in the seen set
LogRegistered(k) ==
  IF log[k].node = 0 THEN ToLower(TitleText(doc, rm)) ELSE ToLower(LogText(k))

\* C2: in extractText, of two selected blocks (or the title and a later
\* block) whose normalized texts are equal ignoring case, the later one
\* pushes no line; a block is only dropped as a duplicate when an earlier
\* callback registered its lowercased text.
C2_Dedup ==
  pipe = "readable" =>
    /\ \A j, k \in 1..Len(log) :
         j < k /\ LogSelected(j) /\ LogSelected(k)
         /\ ToLower(LogText(j)) = ToLower(LogText(k)) => log[k].grp = <<>>
    /\ \A k \in 1..Len(log) :
         log[k].why = "dup" =>
           \E j \in 1..(k - 1) : log[j].why = "fmt"
                                 /\ LogRegistered(j) = ToLower(LogText(k))

\* the elements both pipelines must leave out, and those only extractText must
NoiseBoth(d, i) ==
  \E a \in Anc(d, i) \cup {i} :
     \/ d[a].tag \in {"script", "style", "noscript", "iframe", "svg", "head"}
     \/ d[a].attr \in {"hidden", "styleDisplayNone", "styleDisplayNone2", "ariaHidden"}
NoiseReadableOnly(d, i) ==
  \E a \in Anc(d, i) \cup {i} :
     \/ d[a].tag \in {"nav", "footer", "header", "button", "input", "select", "form"}
     \/ d[a].attr \in {"classAdvertisement", "classAds", "roleNavigation",
                       "roleBanner", "roleComplementary"}
Noise(d, i, p) == NoiseBoth(d, i) \/ (p = "readable" /\ NoiseReadableOnly(d, i))

\* C3: no text of a noise element (of a text no visible element also has)
\* appears in the output of either pipeline.
C3_NoiseAbsent ==
  pc = "done" =>
    \A i \in 1..Len(doc) :
      LET t == Normalize(doc[i].txt) IN
        Noise(doc, i, pipe) /\ t # <<>>
        /\ (\A j \in 1..Len(doc) : ~Noise(doc, j, pipe) => ~IsSub(t, Normalize(doc[j].txt)))
        => ~IsSub(t, out)

\* g is the wrapped paragraph of t followed by a blank line: t with some
\* spaces turned into line breaks
IsWrapOf(g, t) ==
  /\ Len(g) = 2 /\ g[2] = <<>> /\ Len(g[1]) = Len(t)
  /\ \A c \in 1..Len(t) : g[1][c] = t[c] \/ (t[c] = SP /\ g[1][c] = NL)

\* the length gating of C4 for the k-th callback
LengthGated(k) ==
  LET tag == doc[log[k].node].tag
      t == LogText(k)
      g == log[k].grp
  IN /\ pipe = "readable" /\ tag \in {"p", "article", "section", "main"} =>
          /\ Len(t) <= 15 => g = <<>>
          /\ Len(t) >= 16 => IsWrapOf(g, t)
     /\ pipe = "structured" /\ tag \in {"p", "div"} =>
          /\ Len(t) <= 20 => g = <<>>
          /\ Len(t) >= 21 => g = << t, <<>> >>
     /\ Len(t) < (IF pipe = "readable" THEN 3 ELSE 2) => g = <<>>

\* C4 (as stated): a readable p/article/section/main block of normalized
\* length <= 15 pushes nothing and one of length >= 16 pushes its wrapped
\* text and a blank line; a structured p/div of length <= 20 pushes nothing
\* and one of length >= 21 pushes its text and a blank line; text shorter
\* than 3 (readable) or 2 (structured) pushes nothing.
C4_LengthGating ==
  \A k \in 1..Len(log) : log[k].node # 0 => LengthGated(k)

\* C4 (amended): the same for every block the skip rule does not skip and,
\* in extractText, whose lowercased text was not seen before.
C4_LengthGatingAmended ==
  \A k \in 1..Len(log) :
    log[k].node # 0 /\ log[k].why \notin {"skip", "dup"} => LengthGated(k)

\* a readable p of 15 characters and one of 16 have been formatted
C4_Witness ==
  pipe = "readable" /\
  \E j, k \in 1..Len(log) :
    /\ log[j].node # 0 /\ log[k].node # 0
    /\ doc[log[j].node].tag = "p" /\ doc[log[k].node].tag = "p"
    /\ log[j].why = "fmt" /\ log[k].why = "fmt"
    /\ Len(LogText(j)) = 15 /\ Len(LogText(k)) = 16

\* the lines of a wordWrap result
WrapOut == SplitOn(wout, NL)

\* C5: the lines of wordWrap(text, width) joined by single spaces give back
\* the text; a line longer than width is a single word; packing is greedy
\* (a line plus a space plus the next line's first word exceeds width); and
\* "aaaa bbbb cccc dddd" at width 9 gives "aaaa bbbb" and "cccc dddd".
C5_WordWrap ==
  /\ wpc = "done" =>
       /\ Join(WrapOut, <<SP>>) = wtext
       /\ \A i \in 1..Len(WrapOut) :
            WrapOut[i] # <<>>
            /\ (Len(WrapOut[i]) <= wwidth \/ \A c \in 1..Len(WrapOut[i]) : WrapOut[i][c] # SP)
       /\ \A i \in 1..(Len(WrapOut) - 1) :
            Len(WrapOut[i]) + 1 + Len(SplitOn(WrapOut[i + 1], SP)[1]) > wwidth
  /\ wordWrap(WrapExample, 9) =
       SubSeq(WrapExample, 1, 9) \o <<NL>> \o SubSeq(WrapExample, 11, 19)

\* a wrap into several lines, one of them a word longer than the width
C5_Witness ==
  wpc = "done" /\ Len(WrapOut) >= 3
  /\ \E i \in 1..Len(WrapOut) : Len(WrapOut[i]) > wwidth

\* the text of s without its whitespace
DropWs(s) == SelectSeq(s, LAMBDA c : ~IsWs(c))
\* the number of spaces in s
CountSp(s) == Len(SelectSeq(s, LAMBDA c : c = SP))
\* a is s with some characters deleted
RECURSIVE IsSubsequence(_, _)
IsSubsequence(a, b) ==
  \/ a = <<>>
  \/ /\ b # <<>>
     /\ IF Head(a) = Head(b) THEN IsSubsequence(Tail(a), Tail(b))
        ELSE IsSubsequence(a, Tail(b))
\* the joined buffer from its first to its last non-whitespace character
Inner(s) ==
  IF \A k \in 1..Len(s) : IsWs(s[k]) THEN <<>>
  ELSE SubSeq(s, CHOOSE f \in 1..Len(s) : ~IsWs(s[f]) /\ \A j \in 1..(f - 1) : IsWs(s[j]),
                 CHOOSE l \in 1..Len(s) : ~IsWs(s[l]) /\ \A j \in (l + 1)..Len(s) : IsWs(s[j]))
\* s with every maximal run of n newlines replaced by min(n, 2) newlines
RECURSIVE ShortenRuns(_)
ShortenRuns(s) ==
  IF s = <<>> THEN <<>>
  ELSE IF s[1] # NL THEN <<s[1]>> \o ShortenRuns(Tail(s))
  ELSE LET n == CHOOSE n \in 1..Len(s) :
                  (\A j \in 1..n : s[j] = NL) /\ (n = Len(s) \/ s[n + 1] # NL)
       IN Repeat(NL, Min(n, 2)) \o ShortenRuns(SubSeq(s, n + 1, Len(s)))
AsmJoined == Join(abuf, <<NL>>)

\* C6: the assembled string has no run of three newlines and no leading or
\* trailing whitespace; it is the joined buffer with only whitespace deleted,
\* keeping every non-whitespace character and every inner space; exactly:
\* it is the joined buffer from its first to its last non-whitespace
\* character with every run of three or more newlines shortened to two and
\* every other character kept; the buffer ["a", "", "", "", "b"] gives
\* "a\n\nb".
C6_Assembler ==
  apc = "done" =>
    /\ ~\E k \in 1..(Len(aout) - 2) : aout[k] = NL /\ aout[k + 1] = NL /\ aout[k + 2] = NL
    /\ aout # <<>> => ~IsWs(aout[1]) /\ ~IsWs(aout[Len(aout)])
    /\ IsSubsequence(aout, AsmJoined)
    /\ DropWs(aout) = DropWs(AsmJoined)
    /\ CountSp(aout) = CountSp(Inner(AsmJoined))
    /\ aout = ShortenRuns(Inner(AsmJoined))
    /\ abuf = AsmExample => aout = <<"a", NL, NL, "b">>

\* a buffer with leading whitespace, a run of three newlines and a lone
\* inner newline assembled
C6_Witness ==
  apc = "done" /\ Len(AsmJoined) > 0 /\ IsWs(AsmJoined[1])
  /\ \E k \in 1..(Len(AsmJoined) - 2) :
       AsmJoined[k] = NL /\ AsmJoined[k + 1] = NL /\ AsmJoined[k + 2] = NL
       /\ k > 1 /\ ~IsWs(AsmJoined[k - 1])
  /\ \E m \in 2..(Len(aout) - 1) :
       aout[m] = NL /\ aout[m - 1] # NL /\ aout[m + 1] # NL

\* the k-th callback pushed a heading group: blank, heading line(s), blank
IsHeadingGroup(g) == Len(g) >= 3 /\ g[1] = <<>> /\ g[Len(g)] = <<>> /\ g[2] # <<>>

\* node i has an ancestor with a tag of ts
HasAncTag(d, i, ts) == \E a \in Anc(d, i) : d[a].tag \in ts

HeadingTags == {"h1", "h2", "h3", "h4", "h5", "h6"}

\* C7 (as stated): in extractStructuredText a span or a inside a p pushes no
\* line; a heading inside a blockquote is emitted as a heading in both
\* pipelines.
C7_SkipRule ==
  \A k \in 1..Len(log) :
    LET i == log[k].node IN
      i # 0 =>
        /\ pipe = "structured" /\ doc[i].tag \in {"span", "a"}
           /\ HasAncTag(doc, i, {"p"}) => log[k].grp = <<>>
        /\ doc[i].tag \in HeadingTags /\ HasAncTag(doc, i, {"blockquote"})
           => IsHeadingGroup(log[k].grp)

\* the lowercased text t was registered in the seen set by a callback
\* before the k-th one
RegisteredBefore(k, t) ==
  \E j \in 1..(k - 1) : log[j].why = "fmt" /\ LogRegistered(j) = ToLower(t)

\* C7 (amended): a span or a inside a p pushes no line in extractStructuredText.
\* A heading inside a blockquote, in extractText, pushes a heading group
\* exactly when its normalized text has at least 3 characters and its
\* lowercased text was not registered by an earlier callback, and otherwise
\* no line; in particular it pushes no line when an enclosing blockquote
\* whose text equals its own ignoring case was emitted before it. In
\* extractStructuredText it pushes a heading group exactly when it has no
\* p, li or heading ancestor and its normalized text has at least 2
\* characters, and otherwise no line.
C7_SkipRuleAmended ==
  \A k \in 1..Len(log) :
    LET i == log[k].node
        t == LogText(k)
    IN i # 0 =>
        /\ (pipe = "structured" /\ doc[i].tag \in {"span", "a"}
            /\ HasAncTag(doc, i, {"p"}) => log[k].grp = <<>>)
        /\ (doc[i].tag \in HeadingTags /\ HasAncTag(doc, i, {"blockquote"}) =>
             /\ pipe = "readable" =>
                  /\ IsHeadingGroup(log[k].grp) <=> (Len(t) >= 3 /\ ~RegisteredBefore(k, t))
                  /\ ~IsHeadingGroup(log[k].grp) => log[k].grp = <<>>
                  /\ (\E j \in 1..(k - 1) :
                        /\ log[j].node \in Anc(doc, i)
                        /\ doc[log[j].node].tag = "blockquote"
                        /\ log[j].why = "fmt"
                        /\ ToLower(log[j].txt) = ToLower(t))
                     => log[k].grp = <<>>
             /\ pipe = "structured" =>
                  /\ IsHeadingGroup(log[k].grp)
                       <=> (~HasAncTag(doc, i, {"p", "li"} \cup HeadingTags) /\ Len(t) >= 2)
                  /\ ~IsHeadingGroup(log[k].grp) => log[k].grp = <<>>)

\* extractStructuredText has passed over a heading inside a blockquote that
\* has an li ancestor, and emitted another heading inside a blockquote
C7_Witness ==
  /\ pipe = "structured"
  /\ \E k \in 1..Len(log) :
       /\ log[k].node # 0
       /\ doc[log[k].node].tag \in HeadingTags
       /\ HasAncTag(doc, log[k].node, {"blockquote"})
       /\ HasAncTag(doc, log[k].node, {"li"})
       /\ log[k].grp = <<>> /\ LogText(k) # <<>>
  /\ \E k \in 1..Len(log) :
       /\ log[k].node # 0
       /\ doc[log[k].node].tag \in HeadingTags
       /\ HasAncTag(doc, log[k].node, {"blockquote"})
       /\ IsHeadingGroup(log[k].grp)

C9_NoDoubleEmission ==
  \A j, k \in 1..Len(log) :
    LET a == log[j].node
        e == log[k].node
    IN j < k /\ a # 0 /\ e # 0 /\ a \in Anc(doc, e) /\ doc[e].tag \notin HeadingTags
       /\ LogText(k) # <<>> /\ (\E l \in 1..Len(log[j].grp) : IsSub(LogText(k), log[j].grp[l]))
       => log[k].grp = <<>>

\* node e has an ancestor that the pipeline's selector also selects
HasSelectedAnc(d, e, p) == \E a \in Anc(d, e) : d[a].tag \in Selector(p) /\ a > 3

\* C9 (amended): let e be a non-heading selected element nested in another
\* selected element. If e has an ancestor among p, li, td, th, blockquote,
\* figcaption (extractText) or p, li, h1..h6 (extractStructuredText), e
\* pushes no line. Otherwise it is not suppressed by its nesting: in
\* extractText a p/article/section/main pushes its word-wrapped text and a
\* blank line exactly when its normalized text is longer than 15 characters
\* and was not registered earlier, and in extractStructuredText a p/div
\* pushes its text and a blank line exactly when its normalized text is
\* longer than 20 characters; so a long enough text nested in a
\* section/article/main (readable) or div/blockquote (structured) is emitted
\* a second time, while a shorter one pushes nothing.
C9_SkipRuleAmended ==
  \A k \in 1..Len(log) :
    LET e == log[k].node
        t == LogText(k)
        g == log[k].grp
    IN e # 0 /\ doc[e].tag \notin HeadingTags /\ HasSelectedAnc(doc, e, pipe) =>
        IF HasAncTag(doc, e, IF pipe = "readable"
                             THEN {"p", "li", "td", "th", "blockquote", "figcaption"}
                             ELSE {"p", "li"} \cup HeadingTags)
        THEN g = <<>>
        ELSE /\ (pipe = "readable" /\ doc[e].tag \in {"p", "article", "section", "main"} =>
                  /\ g # <<>> <=> (Len(t) > 15 /\ ~RegisteredBefore(k, t))
                  /\ g # <<>> => Len(g) = 2 /\ g[2] = <<>> /\ DropWs(g[1]) = DropWs(t))
             /\ (pipe = "structured" /\ doc[e].tag \in {"p", "div"} =>
                  IF Len(t) > 20 THEN g = << t, <<>> >> ELSE g = <<>>)

\* a readable block inside a section pushed its own lines again
C9_Witness ==
  pipe = "readable" /\
  \E j, k \in 1..Len(log) :
    /\ j < k /\ log[j].node # 0 /\ log[k].node # 0
    /\ doc[log[j].node].tag = "section" /\ log[j].node \in Anc(doc, log[k].node)
    /\ log[j].grp # <<>> /\ log[k].grp # <<>>

\* the subtrees whose text a block's extracted text leaves out
ExcludedTags(p) ==
  IF p = "readable" THEN {"script", "style", "nav", "footer", "header", "aside"}
  ELSE {"script", "style"}

\* C10: no line a block pushes contains the text of a script/style (and in
\* extractText nav/footer/header/aside) element nested at any depth in it
\* (for a text no other element of the document has).
C10_NestedExclusion ==
  \A k \in 1..Len(log) :
    LET i == log[k].node IN
      i # 0 =>
        \A n \in 1..Len(doc) :
          LET t == Normalize(doc[n].txt) IN
            i \in Anc(doc, n) /\ doc[n].tag \in ExcludedTags(pipe) /\ t # <<>>
            /\ (\A m \in 1..Len(doc) : m # n => ~IsSub(t, Normalize(doc[m].txt)))
            => \A l \in 1..Len(log[k].grp) : ~IsSub(t, log[k].grp[l])

\* the line group the formatting table of the claim gives to a block of
\* tag with normalized text t (tags outside the table: none)
TableGroup(p, tag, t) ==
  IF p = "readable" THEN
    CASE tag = "h1" -> << <<>>, ToUpper(t), Repeat("=", Min(Len(t), 50)), <<>> >>
      [] tag = "h2" -> << <<>>, t, Repeat("-", Min(Len(t), 40)), <<>> >>
      [] tag \in {"h3", "h4", "h5", "h6"} -> << <<>>, <<"[">> \o t \o <<"]">>, <<>> >>
      [] tag = "li" -> << <<SP, SP, "-", SP>> \o t >>
      [] tag = "blockquote" -> << <<>>, <<SP, SP, "\"">> \o t \o <<"\"">>, <<>> >>
      [] tag \in {"td", "th"} -> << <<"|", SP>> \o t \o <<SP, "|">> >>
      [] tag = "figcaption" -> << <<SP, SP, "(">> \o t \o <<")">> >>
      [] OTHER -> <<>>
  ELSE
    CASE tag = "h1" -> << <<>>, <<"#", SP>> \o t, <<>> >>
      [] tag = "h2" -> << <<>>, <<"#", "#", SP>> \o t, <<>> >>
      [] tag = "h3" -> << <<>>, <<"#", "#", "#", SP>> \o t, <<>> >>
      [] tag \in {"h4", "h5", "h6"} -> << <<>>, <<"#", "#", "#", "#", SP>> \o t, <<>> >>
      [] tag = "li" -> << <<Bullet, SP>> \o t >>
      [] tag = "blockquote" -> << <<">", SP>> \o t >>
      [] tag = "pre" -> << <<Backtick, Backtick, Backtick>>, t, <<Backtick, Backtick, Backtick>> >>
      [] OTHER -> <<>>

TableTags(p) ==
  IF p = "readable"
  THEN {"h1", "h2", "h3", "h4", "h5", "h6", "li", "blockquote", "td", "th", "figcaption"}
  ELSE {"h1", "h2", "h3", "h4", "h5", "h6", "li", "blockquote", "pre"}

\* C11: a block of a table tag that is formatted (not skipped, long enough
\* and, in extractText, not already seen) pushes exactly the group of the
\* formatting table for its tag and normalized text; its group depends on
\* nothing else.
C11_FormatTables ==
  \A k \in 1..Len(log) :
    LET i == log[k].node IN
      i # 0 /\ log[k].why = "fmt" /\ doc[i].tag \in TableTags(pipe)
        => log[k].grp = TableGroup(pipe, doc[i].tag, log[k].txt)

\* a call of each pipeline has formatted an h3 and an h1 longer than its rule
C11_Witness ==
  /\ \E k \in 1..Len(log) :
       log[k].node # 0 /\ log[k].why = "fmt" /\ doc[log[k].node].tag = "h3"
  /\ \E k \in 1..Len(log) :
       log[k].node # 0 /\ log[k].why = "fmt" /\ doc[log[k].node].tag = "h1"
       /\ Len(log[k].txt) > 50

\* the line groups of log[1..n], one after the other
RECURSIVE Groups(_)
Groups(n) == IF n = 0 THEN <<>> ELSE Groups(n - 1) \o log[n].grp

\* C12: the line buffer is the groups of the title (node 0) and of the blocks,
\* concatenated in the order they were produced, and that order is the
\* document (pre-)order of the nodes, with the title first.
C12_Ordering ==
  /\ lines = Groups(Len(log))
  /\ \A j, k \in 1..Len(log) : j < k => log[j].node < log[k].node

\* a call has pushed a title block and the groups of two blocks
C12_Witness ==
  /\ Len(log) >= 1 /\ log[1].node = 0 /\ log[1].grp # <<>>
  /\ \E j, k \in 2..Len(log) : j < k /\ log[j].grp # <<>> /\ log[k].grp # <<>>

====
